---- MODULE Spec2Model ----
(***************************************************************************)
(* Model of the save relay of sfmc-translation-block (src/save-to-de.js):  *)
(* the module-level token cache, getSFMCToken, insertDataExtensionRows and *)
(* the exported request handler, together with the two upstream endpoints  *)
(* (token exchange, row upsert) whose answers are nondeterministic; and of  *)
(* the data-entry widget (customBlock.js, both of its variants): the form   *)
(* rows, the save button, the persisted form state and the saves in flight. *)
(***************************************************************************)
EXTENDS Integers, Sequences, FiniteSets, TLC

\* ------------------------------------------------------------------ bounds
MaxFields == 2      \* longest fields array of a request body
MaxSec    == 1      \* the clock reaches second MaxSec
MaxMs     == 1      \* ... and MaxMs milliseconds into each second
MaxTokens == 2      \* tokens the authentication endpoint issues in a run
MaxUpserts == 2     \* rowsets the Data Extension applies in a run

\* --------------------------------------------------------------- constants
SafetyMarginSec == 60
MsPerSec        == 1000

\* ------------------------------------------------------------------- data
Handlers   == {"h1", "h2"}          \* invocations that can be in flight
Sequential == {"h1"}                \* one invocation at a time

Methods    == {"POST", "OPTIONS", "GET"}
EmailNames == {"", "Welcome Email"}
FieldPool  == { [name |-> "subject", value |-> "Hi"],
                [name |-> "Subject", value |-> "Hi2"],
                [name |-> "body",    value |-> "Hi"],
                [name |-> "",        value |-> "Hi"],
                [name |-> "body",    value |-> ""] }
ExpiresIn  == {59, 60, 61}          \* expires_in of a token response, seconds
AuthFailStatus   == {401}
UpsertFailStatus == {400}

\* instants the clock can show, in epoch milliseconds
Times == { s * MsPerSec + m : s \in 0..MaxSec, m \in 0..MaxMs }

SeqsUpTo(S, n) == UNION { [1..k -> S] : k \in 0..n }

\* String.prototype.toLowerCase on the names in use
ToLowerCase(s) == IF s = "Subject" THEN "subject" ELSE s

\* JavaScript truthiness of a string
Truthy(s) == s # ""

\* Date.prototype.toISOString: seconds and milliseconds fields of the instant
ToISOString(t) == <<"1970-01-01T00:00", t \div MsPerSec, t % MsPerSec, "Z">>

\* request bodies: absent, or { emailName, fields } where fields may fail
\* Array.isArray
NoBody == [hasBody |-> FALSE, emailName |-> "", isArray |-> FALSE, fields |-> <<>>]
Bodies ==
    {NoBody} \cup
    { [hasBody |-> TRUE, emailName |-> e, isArray |-> FALSE, fields |-> <<>>] :
        e \in EmailNames } \cup
    { [hasBody |-> TRUE, emailName |-> e, isArray |-> TRUE, fields |-> f] :
        e \in EmailNames, f \in SeqsUpTo(FieldPool, MaxFields) }
Requests ==
    { [method |-> "POST", body |-> b] : b \in Bodies } \cup
    { [method |-> m, body |-> NoBody] : m \in Methods \ {"POST"} }
NoRequest == [method |-> "none", body |-> NoBody]

VARIABLES
    SFMC_CONFIG,   \* which of clientId, clientSecret, subdomain are set
    tokenCache,    \* [token, expiresAt]; token 0 is null
    now,           \* Date.now()
    pc,            \* position of each invocation
    req,           \* the request an invocation handles
    dataRows,      \* local of the handler
    authToken,     \* local of the handler; 0 before getSFMCToken returned
    response,      \* what the invocation's last fetch resolved to, if it has
    res,           \* the response sent
    exchanges,     \* token-exchange requests each invocation has issued
    upserts,       \* upsert requests each invocation has issued
    issued,        \* tokens the authentication endpoint has issued
    cachedAt,      \* the instant of the last write to tokenCache
    tokenLog,      \* the platform's record of the tokens it issued
    table,         \* the rows of the Data Extension
    applied        \* the rowsets the Data Extension has applied, in order

\* the widget
VARIABLES
    variant,          \* which customBlock.js the page runs; "none" before init
    emailNameInput,   \* elements.emailName.value
    fieldRows,        \* the .field-row elements: their name and value inputs
    btnSaveDisabled,  \* elements.btnSave.disabled
    messageArea,      \* type of the message shown last
    localStorage,     \* the item 'sfmc-translation-block-data'
    activity,         \* inArguments[0] of the payload the host keeps
    payload,          \* inArguments[0] of the variant's payload object
    widgetAuthToken,  \* the variant's authToken is set
    sfmcEndpoint,     \* the variant's sfmcEndpoint is set
    hostEvents,       \* Postmonger events the host has still to deliver
    saves             \* the calls of saveToDataExtension that are in flight

relay == <<SFMC_CONFIG, tokenCache, now, pc, req, dataRows, authToken, response,
           res, exchanges, upserts, issued, cachedAt, tokenLog, table, applied>>

widget == <<variant, emailNameInput, fieldRows, btnSaveDisabled, messageArea,
            localStorage, activity, payload, widgetAuthToken, sfmcEndpoint,
            hostEvents, saves>>

vars == <<relay, widget>>

platform == <<tokenLog, table, applied>>

\* ---------------------------------------------------------------- helpers
\* a persisted form state, or its absence (null, no item, no inArguments);
\* strings of the widget are sequences of characters
NoItem == [present |-> FALSE, emailName |-> <<>>, hasFields |-> FALSE,
           fields |-> <<>>]

\* the headers without the allowed methods
CorsHeaders_NoMethods == { <<"Access-Control-Allow-Origin", "*">>,
                           <<"Access-Control-Allow-Headers", "Content-Type">> }

\* res.setHeader(...), three times
CorsHeaders == { <<"Access-Control-Allow-Origin", "*">>,
                 <<"Access-Control-Allow-Methods", "POST, OPTIONS">>,
                 <<"Access-Control-Allow-Headers", "Content-Type">> }

NoResponse == [status |-> 0, success |-> "none", rowsInserted |-> -1,
               error |-> "none", upstream |-> 0, headers |-> {}]

Response(st, ok, n, err, up) ==
    [status |-> st, success |-> ok, rowsInserted |-> n, error |-> err,
     upstream |-> up, headers |-> CorsHeaders]

\* what a fetch resolves to: status -1 while it is pending, 0 when it rejected
FetchPending == [status |-> -1, ok |-> FALSE, access_token |-> 0, expires_in |-> 0]
TokenResponse(tok, e) ==
    [status |-> 200, ok |-> TRUE, access_token |-> tok, expires_in |-> e]
UpsertResponse == [status |-> 200, ok |-> TRUE, access_token |-> 0, expires_in |-> 0]
ErrorResponse(st) == [status |-> st, ok |-> FALSE, access_token |-> 0, expires_in |-> 0]

\* the check without its subdomain operand
ConfigMissing_NoSubdomain ==
    ~SFMC_CONFIG.clientId \/ ~SFMC_CONFIG.clientSecret

\* if (!clientId || !clientSecret || !subdomain)
ConfigMissing ==
    ~SFMC_CONFIG.clientId \/ ~SFMC_CONFIG.clientSecret \/ ~SFMC_CONFIG.subdomain

\* if (!emailName || !fields || !Array.isArray(fields))
InvalidBody(b) == ~Truthy(b.emailName) \/ ~b.isArray

\* a row whose fieldname and field value are taken from the wrong property
Row_Swapped(emailName, field, t) ==
    [k \in {"email name", "fieldname", "field value", "EntryDate"} |->
        CASE k = "email name"  -> emailName
          [] k = "fieldname"   -> field.value
          [] k = "field value" -> field.name
          [] k = "EntryDate"   -> ToISOString(t)]

\* one Data Extension row
Row(emailName, field, t) ==
    [k \in {"email name", "fieldname", "field value", "EntryDate"} |->
        CASE k = "email name"  -> emailName
          [] k = "fieldname"   -> field.name
          [] k = "field value" -> field.value
          [] k = "EntryDate"   -> ToISOString(t)]

\* fields.map(field => ({...})), the i-th callback reading the clock at ts[i]
DataRows(emailName, fields, ts) ==
    [i \in 1..Len(fields) |-> Row(emailName, fields[i], ts[i])]

\* the instants the callbacks of one map can read: the clock never runs back
ClockReadings(n, from) ==
    { ts \in [1..n -> Times] :
        /\ \A i \in 1..n : ts[i] >= from
        /\ \A i \in 1..n, j \in 1..n : i <= j => ts[i] <= ts[j] }

\* a payload whose fieldname key is read from the 'field value' column
RequestBody_WrongKey(rows) ==
    [i \in 1..Len(rows) |->
        [keys   |-> [k \in {"email name", "fieldname"} |->
                        IF k = "fieldname" THEN rows[i]["field value"]
                                           ELSE rows[i][k]],
         values |-> rows[i]]]

\* a payload whose keys name the email only
RequestBody_EmailKeyOnly(rows) ==
    [i \in 1..Len(rows) |->
        [keys   |-> [k \in {"email name"} |-> rows[i][k]],
         values |-> rows[i]]]

\* dataRows.map(row => ({ keys: {...}, values: row }))
RequestBody(rows) ==
    [i \in 1..Len(rows) |->
        [keys   |-> [k \in {"email name", "fieldname"} |-> rows[i][k]],
         values |-> rows[i]]]

\* the expiry without the safety margin
ExpiresAt_NoMargin(t, expires_in) == t + (expires_in * MsPerSec)

\* the margin subtracted after the conversion to milliseconds
ExpiresAt_MarginInMs(t, expires_in) == t + (expires_in * MsPerSec) - SafetyMarginSec

\* Date.now() + ((data.expires_in - 60) * 1000)
ExpiresAt(t, expires_in) == t + ((expires_in - SafetyMarginSec) * MsPerSec)

\* the expiry comparison the wrong way round
CacheValid_Inverted == tokenCache.token # 0 /\ now > tokenCache.expiresAt

\* a token still served at the instant of its cached expiry
CacheValid_OrEqual == tokenCache.token # 0 /\ now <= tokenCache.expiresAt

\* tokenCache.token && Date.now() < tokenCache.expiresAt
CacheValid == tokenCache.token # 0 /\ now < tokenCache.expiresAt

\* the Data Extension, primary key ('email name', 'fieldname'): a rowset
\* element replaces the rows its keys select and stores its key and value
\* columns
UpsertRow(t, el) ==
    { r \in t : \E k \in DOMAIN el.keys : r[k] # el.keys[k] } \cup
    { [c \in DOMAIN el.values |->
          IF c \in DOMAIN el.keys THEN el.keys[c] ELSE el.values[c]] }

RECURSIVE Upsert(_, _)
Upsert(t, body) ==
    IF Len(body) = 0 THEN t
    ELSE Upsert(UpsertRow(t, Head(body)), Tail(body))

\* ------------------------------------------------------------------- init
\* the relay when the process has started
InitRelay ==
    /\ SFMC_CONFIG \in [clientId : BOOLEAN, clientSecret : BOOLEAN,
                        subdomain : BOOLEAN]
    /\ tokenCache = [token |-> 0, expiresAt |-> 0]
    /\ now = 0
    /\ pc = [h \in Handlers |-> "idle"]
    /\ req = [h \in Handlers |-> NoRequest]
    /\ dataRows = [h \in Handlers |-> <<>>]
    /\ authToken = [h \in Handlers |-> 0]
    /\ response = [h \in Handlers |-> FetchPending]
    /\ res = [h \in Handlers |-> NoResponse]
    /\ exchanges = [h \in Handlers |-> 0]
    /\ upserts = [h \in Handlers |-> <<>>]
    /\ issued = 0
    /\ cachedAt = 0
    /\ tokenLog = <<>>
    /\ table = {}
    /\ applied = <<>>

\* the widget before its script has run
InitWidget ==
    /\ variant = "none"
    /\ emailNameInput = <<>>
    /\ fieldRows = <<>>
    /\ btnSaveDisabled = FALSE
    /\ messageArea = "none"
    /\ payload = NoItem
    /\ widgetAuthToken = FALSE
    /\ sfmcEndpoint = FALSE
    /\ hostEvents = {}
    /\ saves = <<>>

\* a first session: nothing has been persisted
Init ==
    /\ InitRelay
    /\ InitWidget
    /\ localStorage = NoItem
    /\ activity = NoItem

\* ---------------------------------------------------------------- actions
Respond(h, r) ==
    /\ pc' = [pc EXCEPT ![h] = "Responded"]
    /\ res' = [res EXCEPT ![h] = r]

\* module.exports up to the call of getSFMCToken: CORS headers, method
\* checks, configuration check, body check, building of dataRows
Handler(h, R) ==
    /\ pc[h] = "idle"
    /\ \E r \in R :
        /\ req' = [req EXCEPT ![h] = r]
        /\ IF r.method = "OPTIONS" THEN
               /\ Respond(h, Response(200, "none", -1, "none", 0))
               /\ UNCHANGED <<dataRows, now>>
           ELSE IF r.method # "POST" THEN
               /\ Respond(h, Response(405, "none", -1, "Method not allowed", 0))
               /\ UNCHANGED <<dataRows, now>>
           ELSE IF ConfigMissing THEN
               /\ Respond(h, Response(500, "false", -1,
                                      "Missing SFMC configuration", 0))
               /\ UNCHANGED <<dataRows, now>>
           ELSE IF ~r.body.hasBody THEN
               \* destructuring undefined throws a TypeError
               /\ Respond(h, Response(500, "false", -1, "TypeError", 0))
               /\ UNCHANGED <<dataRows, now>>
           ELSE IF InvalidBody(r.body) THEN
               /\ Respond(h, Response(400, "none", -1, "Invalid request body", 0))
               /\ UNCHANGED <<dataRows, now>>
           ELSE
               \E ts \in ClockReadings(Len(r.body.fields), now) :
                   /\ dataRows' = [dataRows EXCEPT ![h] =
                          DataRows(r.body.emailName, r.body.fields, ts)]
                   /\ now' = IF Len(ts) = 0 THEN now ELSE ts[Len(ts)]
                   /\ pc' = [pc EXCEPT ![h] = "Authenticating"]
                   /\ UNCHANGED res
    /\ UNCHANGED <<widget, SFMC_CONFIG, tokenCache, authToken, response, exchanges,
                   upserts, issued, cachedAt, platform>>

\* getSFMCToken, cache branch: return tokenCache.token
GetTokenCached(h) ==
    /\ pc[h] = "Authenticating"
    /\ CacheValid
    /\ authToken' = [authToken EXCEPT ![h] = tokenCache.token]
    /\ pc' = [pc EXCEPT ![h] = "BuildingPayload"]
    /\ UNCHANGED <<widget, SFMC_CONFIG, tokenCache, now, req, dataRows, response, res,
                   exchanges, upserts, issued, cachedAt, platform>>

\* a refresh that waits while another invocation's exchange is in flight
GetTokenRequest_SingleFlight(h) ==
    /\ pc[h] = "Authenticating"
    /\ ~CacheValid
    /\ \A g \in Handlers : pc[g] # "Exchanging"
    /\ exchanges' = [exchanges EXCEPT ![h] = @ + 1]
    /\ response' = [response EXCEPT ![h] = FetchPending]
    /\ pc' = [pc EXCEPT ![h] = "Exchanging"]
    /\ UNCHANGED <<widget, SFMC_CONFIG, tokenCache, now, req, dataRows, authToken, res,
                   upserts, issued, cachedAt, platform>>

\* getSFMCToken, refresh branch: fetch(authUrl, ...) is issued
GetTokenRequest(h) ==
    /\ pc[h] = "Authenticating"
    /\ ~CacheValid
    /\ exchanges' = [exchanges EXCEPT ![h] = @ + 1]
    /\ response' = [response EXCEPT ![h] = FetchPending]
    /\ pc' = [pc EXCEPT ![h] = "Exchanging"]
    /\ UNCHANGED <<widget, SFMC_CONFIG, tokenCache, now, req, dataRows, authToken, res,
                   upserts, issued, cachedAt, platform>>

\* the authentication endpoint answers the exchange of h: a fresh token with
\* its expires_in, a non-2xx status, or no answer at all (fetch rejects);
\* log says whether the platform's token record is kept
AuthAnswers(h, log) ==
    /\ pc[h] = "Exchanging"
    /\ response[h] = FetchPending
    /\ \/ /\ issued < MaxTokens
          /\ \E expires_in \in ExpiresIn :
              /\ response' = [response EXCEPT ![h] =
                     TokenResponse(issued + 1, expires_in)]
              /\ tokenLog' = IF log
                    THEN Append(tokenLog, [issuedAt |-> now,
                                           expires_in |-> expires_in])
                    ELSE tokenLog
          /\ issued' = issued + 1
       \/ /\ \E st \in AuthFailStatus \cup {0} :
                response' = [response EXCEPT ![h] = ErrorResponse(st)]
          /\ UNCHANGED <<issued, tokenLog>>
    /\ UNCHANGED <<widget, SFMC_CONFIG, tokenCache, now, pc, req, dataRows, authToken,
                   res, exchanges, upserts, cachedAt, table, applied>>

\* a success path whose two cache assignments are not made together
ExchangeOk_TokenOnly(h) ==
    /\ pc[h] = "Exchanging"
    /\ response[h].ok
    /\ tokenCache' = [tokenCache EXCEPT !.token = response[h].access_token]
    /\ cachedAt' = now
    /\ authToken' = [authToken EXCEPT ![h] = response[h].access_token]
    /\ pc' = [pc EXCEPT ![h] = "BuildingPayload"]
    /\ UNCHANGED <<widget, SFMC_CONFIG, now, req, dataRows, response, res, exchanges,
                   upserts, issued, platform>>

\* the exchange answered 2xx: cache the token and its expiry, return it
ExchangeOk(h) ==
    /\ pc[h] = "Exchanging"
    /\ response[h].ok
    /\ tokenCache' = [token |-> response[h].access_token,
                      expiresAt |-> ExpiresAt(now, response[h].expires_in)]
    /\ cachedAt' = now
    /\ authToken' = [authToken EXCEPT ![h] = response[h].access_token]
    /\ pc' = [pc EXCEPT ![h] = "BuildingPayload"]
    /\ UNCHANGED <<widget, SFMC_CONFIG, now, req, dataRows, response, res, exchanges,
                   upserts, issued, platform>>

\* a failed exchange whose body is cached before response.ok is looked at
ExchangeFail_CachesFirst(h) ==
    /\ pc[h] = "Exchanging"
    /\ response[h].status # -1 /\ ~response[h].ok
    /\ Respond(h, Response(500, "false", -1,
                           IF response[h].status = 0 THEN "fetch failed"
                                                     ELSE "SFMC Auth failed",
                           response[h].status))
    /\ tokenCache' = [token |-> 0, expiresAt |-> now - (SafetyMarginSec * MsPerSec)]
    /\ UNCHANGED <<widget, SFMC_CONFIG, now, req, dataRows, authToken, response,
                   exchanges, upserts, issued, cachedAt, platform>>

\* a failed exchange after which the handler goes on without a token
ExchangeFail_Continues(h) ==
    /\ pc[h] = "Exchanging"
    /\ response[h].status # -1 /\ ~response[h].ok
    /\ pc' = [pc EXCEPT ![h] = "BuildingPayload"]
    /\ UNCHANGED <<widget, SFMC_CONFIG, tokenCache, now, req, dataRows, authToken,
                   response, res, exchanges, upserts, issued, cachedAt,
                   platform>>

\* a failed exchange after which getSFMCToken is tried again
ExchangeFail_Retries(h) ==
    /\ pc[h] = "Exchanging"
    /\ response[h].status # -1 /\ ~response[h].ok
    /\ pc' = [pc EXCEPT ![h] = "Authenticating"]
    /\ UNCHANGED <<widget, SFMC_CONFIG, tokenCache, now, req, dataRows, authToken,
                   response, res, exchanges, upserts, issued, cachedAt,
                   platform>>

\* the exchange answered non-2xx (status > 0) or fetch rejected (status 0):
\* getSFMCToken throws, the handler's catch answers 500
ExchangeFail(h) ==
    /\ pc[h] = "Exchanging"
    /\ response[h].status # -1 /\ ~response[h].ok
    /\ Respond(h, Response(500, "false", -1,
                           IF response[h].status = 0 THEN "fetch failed"
                                                     ELSE "SFMC Auth failed",
                           response[h].status))
    /\ UNCHANGED <<widget, SFMC_CONFIG, tokenCache, now, req, dataRows, authToken,
                   response, exchanges, upserts, issued, cachedAt, platform>>

\* an insert that posts the rows one request at a time
InsertRequest_PerRow(h) ==
    /\ pc[h] = "BuildingPayload"
    /\ upserts' = [upserts EXCEPT ![h] =
           [i \in 1..Len(dataRows[h]) |->
               [endpoint |-> "rowset", token |-> authToken[h],
                body |-> RequestBody(<<dataRows[h][i]>>)]]]
    /\ response' = [response EXCEPT ![h] = FetchPending]
    /\ pc' = [pc EXCEPT ![h] = "Submitting"]
    /\ UNCHANGED <<widget, SFMC_CONFIG, tokenCache, now, req, dataRows, authToken, res,
                   exchanges, issued, cachedAt, platform>>

\* insertDataExtensionRows up to its fetch: one POST of the whole rowset
InsertRequest(h) ==
    /\ pc[h] = "BuildingPayload"
    /\ upserts' = [upserts EXCEPT ![h] =
           Append(@, [endpoint |-> "rowset", token |-> authToken[h],
                      body |-> RequestBody(dataRows[h])])]
    /\ response' = [response EXCEPT ![h] = FetchPending]
    /\ pc' = [pc EXCEPT ![h] = "Submitting"]
    /\ UNCHANGED <<widget, SFMC_CONFIG, tokenCache, now, req, dataRows, authToken, res,
                   exchanges, issued, cachedAt, platform>>

\* the rowset endpoint answers the upsert of h: 2xx after applying the rowset
\* to the Data Extension, a non-2xx status, or no answer at all (fetch
\* rejects); store says whether the Data Extension's rows are kept
UpsertAnswers(h, store) ==
    /\ pc[h] = "Submitting"
    /\ response[h] = FetchPending
    /\ \/ /\ store => Len(applied) < MaxUpserts
          /\ response' = [response EXCEPT ![h] = UpsertResponse]
          /\ table' = IF store
                THEN Upsert(table, upserts[h][Len(upserts[h])].body)
                ELSE table
          /\ applied' = IF store
                THEN Append(applied, upserts[h][Len(upserts[h])].body)
                ELSE applied
       \/ /\ \E st \in UpsertFailStatus \cup {0} :
                response' = [response EXCEPT ![h] = ErrorResponse(st)]
          /\ UNCHANGED <<table, applied>>
    /\ UNCHANGED <<widget, SFMC_CONFIG, tokenCache, now, pc, req, dataRows, authToken,
                   res, exchanges, upserts, issued, cachedAt, tokenLog>>

\* a success response that leaves rowsInserted out
InsertOk_NoCount(h) ==
    /\ pc[h] = "Submitting"
    /\ response[h].ok
    /\ Respond(h, Response(200, "true", -1, "none", 0))
    /\ UNCHANGED <<widget, SFMC_CONFIG, tokenCache, now, req, dataRows, authToken,
                   response, exchanges, upserts, issued, cachedAt, platform>>

\* the upsert answered 2xx: success response
InsertOk(h) ==
    /\ pc[h] = "Submitting"
    /\ response[h].ok
    /\ Respond(h, Response(200, "true", Len(dataRows[h]), "none", 0))
    /\ UNCHANGED <<widget, SFMC_CONFIG, tokenCache, now, req, dataRows, authToken,
                   response, exchanges, upserts, issued, cachedAt, platform>>

\* a failed upsert that is logged and answered as a success
InsertFail_Swallowed(h) ==
    /\ pc[h] = "Submitting"
    /\ response[h].status # -1 /\ ~response[h].ok
    /\ Respond(h, Response(200, "true", Len(dataRows[h]), "none", 0))
    /\ UNCHANGED <<widget, SFMC_CONFIG, tokenCache, now, req, dataRows, authToken,
                   response, exchanges, upserts, issued, cachedAt, platform>>

\* a failed upsert after which the cached token is thrown away
InsertFail_Invalidates(h) ==
    /\ pc[h] = "Submitting"
    /\ response[h].status # -1 /\ ~response[h].ok
    /\ Respond(h, Response(500, "false", -1,
                           IF response[h].status = 0 THEN "fetch failed"
                                                     ELSE "DE Insert failed",
                           response[h].status))
    /\ tokenCache' = [token |-> 0, expiresAt |-> 0]
    /\ UNCHANGED <<widget, SFMC_CONFIG, now, req, dataRows, authToken,
                   response, exchanges, upserts, issued, cachedAt, platform>>

\* the upsert answered non-2xx or fetch rejected: the catch answers 500
InsertFail(h) ==
    /\ pc[h] = "Submitting"
    /\ response[h].status # -1 /\ ~response[h].ok
    /\ Respond(h, Response(500, "false", -1,
                           IF response[h].status = 0 THEN "fetch failed"
                                                     ELSE "DE Insert failed",
                           response[h].status))
    /\ UNCHANGED <<widget, SFMC_CONFIG, tokenCache, now, req, dataRows, authToken,
                   response, exchanges, upserts, issued, cachedAt, platform>>

\* the invocation is over; its locals are gone
Return(h) ==
    /\ pc[h] = "Responded"
    /\ pc' = [pc EXCEPT ![h] = "idle"]
    /\ req' = [req EXCEPT ![h] = NoRequest]
    /\ dataRows' = [dataRows EXCEPT ![h] = <<>>]
    /\ authToken' = [authToken EXCEPT ![h] = 0]
    /\ response' = [response EXCEPT ![h] = FetchPending]
    /\ res' = [res EXCEPT ![h] = NoResponse]
    /\ exchanges' = [exchanges EXCEPT ![h] = 0]
    /\ upserts' = [upserts EXCEPT ![h] = <<>>]
    /\ UNCHANGED <<widget, SFMC_CONFIG, tokenCache, now, issued, cachedAt, platform>>

\* time passes
Tick ==
    /\ \E t \in Times : t > now /\ now' = t
    /\ UNCHANGED <<widget, SFMC_CONFIG, tokenCache, pc, req, dataRows, authToken,
                   response, res, exchanges, upserts, issued, cachedAt,
                   platform>>

\* one invocation at a time, any request, a platform that keeps no record
Next ==
    \/ \E h \in Sequential : Handler(h, Requests)
    \/ \E h \in Sequential : GetTokenCached(h)
    \/ \E h \in Sequential : GetTokenRequest(h)
    \/ \E h \in Sequential : AuthAnswers(h, FALSE)
    \/ \E h \in Sequential : ExchangeOk(h)
    \/ \E h \in Sequential : ExchangeFail(h)
    \/ \E h \in Sequential : InsertRequest(h)
    \/ \E h \in Sequential : UpsertAnswers(h, FALSE)
    \/ \E h \in Sequential : InsertOk(h)
    \/ \E h \in Sequential : InsertFail(h)
    \/ \E h \in Sequential : Return(h)
    \/ Tick

Spec == Init /\ [][Next]_vars

\* the saves of the spec's examples: "Welcome Email" with its subject, and
\* with its subject and body
ExampleFields == << [name |-> "subject", value |-> "Hi"],
                    [name |-> "body",    value |-> "Hi"] >>
SaveRequests ==
    { [method |-> "POST",
       body |-> [hasBody |-> TRUE, emailName |-> "Welcome Email",
                 isArray |-> TRUE, fields |-> SubSeq(ExampleFields, 1, k)]] :
        k \in 1..Len(ExampleFields) }
ExampleRequests == { r \in SaveRequests : Len(r.body.fields) = 1 }

\* one invocation at a time, valid saves, a platform that records the tokens
\* it issues and keeps the rows of the Data Extension
NextPlatform ==
    \/ \E h \in Sequential : Handler(h, SaveRequests)
    \/ \E h \in Sequential : GetTokenCached(h)
    \/ \E h \in Sequential : GetTokenRequest(h)
    \/ \E h \in Sequential : AuthAnswers(h, TRUE)
    \/ \E h \in Sequential : ExchangeOk(h)
    \/ \E h \in Sequential : ExchangeFail(h)
    \/ \E h \in Sequential : InsertRequest(h)
    \/ \E h \in Sequential : UpsertAnswers(h, TRUE)
    \/ \E h \in Sequential : InsertOk(h)
    \/ \E h \in Sequential : InsertFail(h)
    \/ \E h \in Sequential : Return(h)
    \/ Tick

SpecPlatform == Init /\ [][NextPlatform]_vars

\* invocations in flight together
NextConc ==
    \/ \E h \in Handlers : Handler(h, ExampleRequests)
    \/ \E h \in Handlers : GetTokenCached(h)
    \/ \E h \in Handlers : GetTokenRequest(h)
    \/ \E h \in Handlers : AuthAnswers(h, FALSE)
    \/ \E h \in Handlers : ExchangeOk(h)
    \/ \E h \in Handlers : ExchangeFail(h)
    \/ \E h \in Handlers : InsertRequest(h)
    \/ \E h \in Handlers : UpsertAnswers(h, FALSE)
    \/ \E h \in Handlers : InsertOk(h)
    \/ \E h \in Handlers : InsertFail(h)
    \/ \E h \in Handlers : Return(h)
    \/ Tick

SpecConc == Init /\ [][NextConc]_vars

\* the steps of an invocation that run as soon as what they await is settled
RelaySteps(h) ==
    \/ GetTokenCached(h) \/ GetTokenRequest(h)
    \/ ExchangeOk(h) \/ ExchangeFail(h)
    \/ InsertRequest(h)
    \/ InsertOk(h) \/ InsertFail(h)

\* Spec with the event loop's guarantee: a continuation whose promise has
\* settled is run; requests need not arrive and the platform need not answer
FairSpec == Init /\ [][Next]_vars /\ \A h \in Sequential : WF_vars(RelaySteps(h))

\* ------------------------------------------------------------- the widget
MIN_FIELDS == 1
MAX_FIELDS == 20

MaxFormRows  == 2     \* rows of a form the user has filled in
MaxInFlight  == 2     \* saves that can be awaiting an answer together

Variants == {"postmonger", "backend"}

\* CONFIG.DEFAULT_FIELDS
DEFAULT_FIELDS ==
    << [name |-> <<"s","u","b","j","e","c","t">>,         value |-> <<>>],
       [name |-> <<"p","r","e","h","e","a","d","e","r">>, value |-> <<>>],
       [name |-> <<"h","e","a","d","e","r">>,             value |-> <<>>],
       [name |-> <<"b","o","d","y">>,                     value |-> <<>>],
       [name |-> <<"f","o","o","t","e","r">>,             value |-> <<>>] >>

\* what the user types
EmailInputs == { <<>>, <<"e">> }
RowInputs ==
    { [name |-> <<"a">>,      value |-> <<"v">>],
      [name |-> <<"A", " ">>, value |-> <<"v">>],
      [name |-> <<"<">>,      value |-> <<"v">>],
      [name |-> <<" ">>,      value |-> <<"v">>] }

\* the forms the user can bring about by adding rows, removing rows down to
\* MIN_FIELDS and typing
Forms == UNION { [1..k -> RowInputs] : k \in MIN_FIELDS..MaxFormRows }

\* String(event) of the click event that addFieldRow receives as its name;
\* written as one character, none of its characters being special
MouseEvent == <<"[object MouseEvent]">>

\* persisted form states found at start: none, or an email name with no or
\* one field
SavedFields == << [name |-> <<"a">>, value |-> <<"v">>] >>
Item(e, f) == [present |-> TRUE, emailName |-> e, hasFields |-> TRUE, fields |-> f]
SavedItems ==
    {NoItem} \cup { Item(<<"e">>, SubSeq(SavedFields, 1, k)) :
                      k \in 0..Len(SavedFields) }

\* String.prototype.trim
RECURSIVE TrimStart(_)
TrimStart(s) ==
    IF s # <<>> /\ Head(s) = " " THEN TrimStart(Tail(s)) ELSE s
RECURSIVE TrimEnd(_)
TrimEnd(s) ==
    IF s # <<>> /\ s[Len(s)] = " " THEN TrimEnd(SubSeq(s, 1, Len(s) - 1)) ELSE s
Trim(s) == TrimEnd(TrimStart(s))

\* String.prototype.toLowerCase, on sequences of characters
LowerCaseChar(c) ==
    CASE c = "A" -> "a"
      [] c = "[object MouseEvent]" -> "[object mouseevent]"
      [] OTHER -> c
LowerCase(s) == [i \in 1..Len(s) |-> LowerCaseChar(s[i])]

\* s.replace(/c/g, r)
RECURSIVE Replace(_, _, _)
Replace(s, c, r) ==
    IF s = <<>> THEN <<>>
    ELSE (IF Head(s) = c THEN r ELSE <<Head(s)>>) \o Replace(Tail(s), c, r)

Amp   == <<"&","a","m","p",";">>
Lt    == <<"&","l","t",";">>
Gt    == <<"&","g","t",";">>
Quot  == <<"&","q","u","o","t",";">>
Apos  == <<"&","#","x","2","7",";">>
Slash == <<"&","#","x","2","F",";">>

\* sanitizeInput: the five replacements, in the order of the source
sanitizeInput(input) ==
    Replace(Replace(Replace(Replace(Replace(input,
        "<", Lt), ">", Gt), "\"", Quot), "'", Apos), "/", Slash)

\* sanitizeHtml: textContent read back as innerHTML
sanitizeHtml(html) == Replace(Replace(Replace(html, "&", Amp), "<", Lt), ">", Gt)

StartsWith(s, p) == Len(s) >= Len(p) /\ SubSeq(s, 1, Len(p)) = p
Drop(s, n) == SubSeq(s, n + 1, Len(s))

\* the value the parser gives an input whose markup is value="s": s up to
\* its first double quote, character references decoded
RECURSIVE Decode(_)
Decode(s) ==
    IF s = <<>> THEN <<>>
    ELSE IF StartsWith(s, Amp)   THEN <<"&">>  \o Decode(Drop(s, Len(Amp)))
    ELSE IF StartsWith(s, Lt)    THEN <<"<">>  \o Decode(Drop(s, Len(Lt)))
    ELSE IF StartsWith(s, Gt)    THEN <<">">>  \o Decode(Drop(s, Len(Gt)))
    ELSE IF StartsWith(s, Quot)  THEN <<"\"">> \o Decode(Drop(s, Len(Quot)))
    ELSE IF StartsWith(s, Apos)  THEN <<"'">>  \o Decode(Drop(s, Len(Apos)))
    ELSE IF StartsWith(s, Slash) THEN <<"/">>  \o Decode(Drop(s, Len(Slash)))
    ELSE <<Head(s)>> \o Decode(Tail(s))
RECURSIVE UpToQuote(_)
UpToQuote(s) ==
    IF s = <<>> \/ Head(s) = "\"" THEN <<>>
    ELSE <<Head(s)>> \o UpToQuote(Tail(s))
AttributeValue(s) == Decode(UpToQuote(s))

\* getFieldCount
getFieldCount(rows) == Len(rows)

\* addFieldRow on the rows of the container: refused at MAX_FIELDS, else a
\* row whose inputs carry value="${sanitizeHtml(...)}" is appended
addFieldRow(rows, name, value) ==
    IF getFieldCount(rows) >= MAX_FIELDS THEN rows
    ELSE Append(rows, [name  |-> AttributeValue(sanitizeHtml(name)),
                       value |-> AttributeValue(sanitizeHtml(value))])

\* fields.forEach(field => addFieldRow(field.name, field.value))
RECURSIVE addFieldRows(_, _)
addFieldRows(rows, fields) ==
    IF fields = <<>> THEN rows
    ELSE addFieldRows(addFieldRow(rows, Head(fields).name, Head(fields).value),
                      Tail(fields))

\* the message left by a forEach of addFieldRow: an error if a row was refused
MessageAfterAdding(rows, fields, message) ==
    IF getFieldCount(rows) + Len(fields) > MAX_FIELDS THEN "error" ELSE message

\* removeFieldRow of the i-th row: refused at MIN_FIELDS
removeFieldRow(rows, i) ==
    IF getFieldCount(rows) > MIN_FIELDS
    THEN [j \in 1..(Len(rows) - 1) |-> IF j < i THEN rows[j] ELSE rows[j + 1]]
    ELSE rows

\* loadSavedFields: the container is emptied, then the saved fields are added
loadSavedFields(fields) == addFieldRows(<<>>, fields)

\* collectFieldData: null (ok FALSE) or { emailName, fields }
NoData == [ok |-> FALSE, emailName |-> <<>>, fields |-> <<>>]

\* the loop over the rows, fields being the array pushed so far: the names
\* compared are those already pushed (sanitized) and the trimmed input
RECURSIVE CollectRows(_, _)
CollectRows(rows, fields) ==
    IF rows = <<>> THEN [ok |-> TRUE, fields |-> fields]
    ELSE LET name  == Trim(Head(rows).name)
             value == Trim(Head(rows).value)
         IN  IF name = <<>> \/ value = <<>>
                 THEN [ok |-> FALSE, fields |-> <<>>]
             ELSE IF \E i \in 1..Len(fields) :
                        LowerCase(fields[i].name) = LowerCase(name)
                 THEN [ok |-> FALSE, fields |-> <<>>]
             ELSE CollectRows(Tail(rows),
                      Append(fields, [name  |-> sanitizeInput(name),
                                      value |-> sanitizeInput(value)]))

collectFieldData(email, rows) ==
    LET emailName == Trim(email)
        collected == CollectRows(rows, <<>>)
    IN  IF emailName = <<>> THEN NoData
        ELSE IF ~collected.ok THEN NoData
        ELSE [ok |-> TRUE, emailName |-> sanitizeInput(emailName),
              fields |-> collected.fields]

\* init: the connection (Postmonger variant) or the localStorage item
\* (backend variant, loadSavedData), then renderDefaultFields
init(v) ==
    /\ variant = "none"
    /\ variant' = v
    /\ IF v = "postmonger" THEN
           /\ hostEvents' = {"initActivity", "requestedTokens",
                             "requestedEndpoints"}
           /\ fieldRows' = addFieldRows(fieldRows, DEFAULT_FIELDS)
           /\ messageArea' =
                  MessageAfterAdding(fieldRows, DEFAULT_FIELDS, messageArea)
           /\ UNCHANGED emailNameInput
       ELSE
           LET saved  == localStorage
               loads  == saved.present /\ saved.hasFields
                            /\ Len(saved.fields) > 0
               loaded == IF loads THEN loadSavedFields(saved.fields)
                                  ELSE fieldRows
           IN  /\ emailNameInput' =
                      IF saved.present /\ saved.emailName # <<>>
                          THEN saved.emailName ELSE emailNameInput
               /\ fieldRows' = addFieldRows(loaded, DEFAULT_FIELDS)
               /\ messageArea' =
                      MessageAfterAdding(loaded, DEFAULT_FIELDS, messageArea)
               /\ UNCHANGED hostEvents
    /\ UNCHANGED <<relay, btnSaveDisabled, localStorage, activity, payload,
                   widgetAuthToken, sfmcEndpoint, saves>>

\* onInitActivity(data), data being the payload the host keeps
onInitActivity ==
    /\ variant = "postmonger"
    /\ "initActivity" \in hostEvents
    /\ hostEvents' = hostEvents \ {"initActivity"}
    /\ payload' = IF activity.present THEN activity ELSE payload
    /\ LET savedData == IF activity.present THEN activity ELSE payload
       IN  /\ emailNameInput' =
                  IF savedData.present /\ savedData.emailName # <<>>
                      THEN savedData.emailName ELSE emailNameInput
           /\ fieldRows' =
                  IF savedData.present /\ savedData.hasFields
                      THEN loadSavedFields(savedData.fields) ELSE fieldRows
           /\ messageArea' =
                  IF savedData.present /\ savedData.hasFields
                      THEN MessageAfterAdding(<<>>, savedData.fields,
                                              messageArea)
                      ELSE messageArea
    /\ UNCHANGED <<relay, variant, btnSaveDisabled, localStorage, activity,
                   widgetAuthToken, sfmcEndpoint, saves>>

\* onGetTokens(tokens), tokens carrying a token or not
onGetTokens ==
    /\ variant = "postmonger"
    /\ "requestedTokens" \in hostEvents
    /\ hostEvents' = hostEvents \ {"requestedTokens"}
    /\ \E token \in BOOLEAN : widgetAuthToken' = (token \/ widgetAuthToken)
    /\ UNCHANGED <<relay, variant, emailNameInput, fieldRows, btnSaveDisabled,
                   messageArea, localStorage, activity, payload, sfmcEndpoint, saves>>

\* onGetEndpoints(endpoints), endpoints carrying restEndpoint or not
onGetEndpoints ==
    /\ variant = "postmonger"
    /\ "requestedEndpoints" \in hostEvents
    /\ hostEvents' = hostEvents \ {"requestedEndpoints"}
    /\ \E restEndpoint \in BOOLEAN :
          sfmcEndpoint' = (restEndpoint \/ sfmcEndpoint)
    /\ UNCHANGED <<relay, variant, emailNameInput, fieldRows, btnSaveDisabled,
                   messageArea, localStorage, activity, payload, widgetAuthToken, saves>>

\* a click on btnAddField: addFieldRow(event); cap bounds the clicks
ClickAddField(cap) ==
    /\ variant # "none"
    /\ getFieldCount(fieldRows) < cap
    /\ fieldRows' = addFieldRow(fieldRows, MouseEvent, <<>>)
    /\ messageArea' = IF getFieldCount(fieldRows) >= MAX_FIELDS
                          THEN "error" ELSE messageArea
    /\ UNCHANGED <<relay, variant, emailNameInput, btnSaveDisabled,
                   localStorage, activity, payload, widgetAuthToken, sfmcEndpoint,
                   hostEvents, saves>>

\* window.removeFieldRow(rowId), the row being the i-th of the container
ClickRemove ==
    /\ variant # "none"
    /\ \E i \in 1..Len(fieldRows) : fieldRows' = removeFieldRow(fieldRows, i)
    /\ UNCHANGED <<relay, variant, emailNameInput, btnSaveDisabled,
                   messageArea, localStorage, activity, payload, widgetAuthToken,
                   sfmcEndpoint, hostEvents, saves>>

\* the user edits the email name, between two saves
TypeEmailName ==
    /\ variant # "none"
    /\ saves = <<>>
    /\ \E e \in EmailInputs : e # emailNameInput /\ emailNameInput' = e
    /\ UNCHANGED <<relay, variant, fieldRows, btnSaveDisabled, messageArea,
                   localStorage, activity, payload, widgetAuthToken, sfmcEndpoint,
                   hostEvents, saves>>

\* the user fills in the rows, between two saves
UserEdits ==
    /\ variant # "none"
    /\ saves = <<>>
    /\ \E rows \in Forms : rows # fieldRows /\ fieldRows' = rows
    /\ UNCHANGED <<relay, variant, emailNameInput, btnSaveDisabled,
                   messageArea, localStorage, activity, payload, widgetAuthToken,
                   sfmcEndpoint, hostEvents, saves>>

\* a save that leaves the button as it is
saveToDataExtension_NoLoadingState ==
    /\ variant # "none"
    /\ ~btnSaveDisabled
    /\ Len(saves) < MaxInFlight
    /\ LET data == collectFieldData(emailNameInput, fieldRows)
       IN  IF ~data.ok THEN
               /\ messageArea' = "error"
               /\ UNCHANGED saves
           ELSE
               /\ messageArea' = "info"
               /\ saves' = Append(saves,
                      [data   |-> data,
                       sent   |-> (variant = "backend"
                                     \/ (widgetAuthToken /\ sfmcEndpoint)),
                       result |-> "pending"])
    /\ UNCHANGED <<relay, variant, emailNameInput, fieldRows, btnSaveDisabled,
                   localStorage, activity, payload, widgetAuthToken,
                   sfmcEndpoint, hostEvents>>

\* a click on btnSave, which a disabled button does not deliver:
\* saveToDataExtension up to its await
saveToDataExtension ==
    /\ variant # "none"
    /\ ~btnSaveDisabled
    /\ Len(saves) < MaxInFlight
    /\ LET data == collectFieldData(emailNameInput, fieldRows)
       IN  IF ~data.ok THEN
               /\ messageArea' = "error"
               /\ UNCHANGED <<btnSaveDisabled, saves>>
           ELSE
               /\ btnSaveDisabled' = TRUE
               /\ messageArea' = "info"
               /\ saves' = Append(saves,
                      [data   |-> data,
                       sent   |-> (variant = "backend"
                                     \/ (widgetAuthToken /\ sfmcEndpoint)),
                       result |-> "pending"])
    /\ UNCHANGED <<relay, variant, emailNameInput, fieldRows, localStorage,
                   activity, payload, widgetAuthToken, sfmcEndpoint, hostEvents>>

\* what a save awaits settles: the request was answered 2xx with success
\* true, answered otherwise, or failed; the simulated delay only elapses
FetchSettles ==
    /\ \E i \in 1..Len(saves) :
          /\ saves[i].result = "pending"
          /\ \E r \in (IF saves[i].sent THEN {"success", "rejected", "threw"}
                                        ELSE {"success"}) :
                saves' = [saves EXCEPT ![i].result = r]
    /\ UNCHANGED <<relay, variant, emailNameInput, fieldRows, btnSaveDisabled,
                   messageArea, localStorage, activity, payload, widgetAuthToken,
                   sfmcEndpoint, hostEvents>>

Without(s, i) == [j \in 1..(Len(s) - 1) |-> IF j < i THEN s[j] ELSE s[j + 1]]

\* a save that persists the form state before it looks at the outcome
SaveResumes_PersistsAlways ==
    /\ \E i \in 1..Len(saves) :
          /\ saves[i].result # "pending"
          /\ saves' = Without(saves, i)
          /\ messageArea' = IF saves[i].result = "success" THEN "success"
                                                           ELSE "error"
          /\ localStorage' =
                 IF variant = "backend"
                     THEN Item(saves[i].data.emailName, saves[i].data.fields)
                     ELSE localStorage
          /\ payload' =
                 IF variant = "postmonger"
                     THEN Item(saves[i].data.emailName, saves[i].data.fields)
                     ELSE payload
          /\ activity' =
                 IF variant = "postmonger"
                     THEN Item(saves[i].data.emailName, saves[i].data.fields)
                     ELSE activity
    /\ btnSaveDisabled' = FALSE
    /\ UNCHANGED <<relay, variant, emailNameInput, fieldRows, widgetAuthToken,
                   sfmcEndpoint, hostEvents>>

\* saveToDataExtension after its await: on success the message and
\* saveToLocalStorage / saveToPayload, else the error message; finally
\* setLoadingState(false)
SaveResumes ==
    /\ \E i \in 1..Len(saves) :
          /\ saves[i].result # "pending"
          /\ saves' = Without(saves, i)
          /\ IF saves[i].result = "success" THEN
                 /\ messageArea' = "success"
                 /\ localStorage' =
                        IF variant = "backend"
                            THEN Item(saves[i].data.emailName,
                                      saves[i].data.fields)
                            ELSE localStorage
                 /\ payload' =
                        IF variant = "postmonger"
                            THEN Item(saves[i].data.emailName,
                                      saves[i].data.fields)
                            ELSE payload
                 /\ activity' =
                        IF variant = "postmonger"
                            THEN Item(saves[i].data.emailName,
                                      saves[i].data.fields)
                            ELSE activity
             ELSE
                 /\ messageArea' = "error"
                 /\ UNCHANGED <<localStorage, activity, payload>>
    /\ btnSaveDisabled' = FALSE
    /\ UNCHANGED <<relay, variant, emailNameInput, fieldRows, widgetAuthToken,
                   sfmcEndpoint, hostEvents>>

\* a deployment whose configuration is complete, at the start of a session
\* that finds what an earlier session persisted, in localStorage or with
\* the host
InitDeployed ==
    /\ InitRelay
    /\ ~ConfigMissing
    /\ InitWidget
    /\ \E item \in SavedItems :
          \/ localStorage = item /\ activity = NoItem
          \/ localStorage = NoItem /\ activity = item

\* the form: start, saved fields, rows added and removed
NextForm ==
    \/ \E v \in Variants : init(v)
    \/ onInitActivity
    \/ ClickAddField(MAX_FIELDS + 1)
    \/ ClickRemove

SpecForm == InitDeployed /\ [][NextForm]_vars

\* the form filled in and saved
NextSave ==
    \/ \E v \in Variants : init(v)
    \/ onInitActivity
    \/ onGetTokens
    \/ onGetEndpoints
    \/ TypeEmailName
    \/ UserEdits
    \/ saveToDataExtension
    \/ FetchSettles
    \/ SaveResumes

SpecSave == InitDeployed /\ [][NextSave]_vars

\* ------------------------------------------------------------ properties
ConfigComplete ==
    SFMC_CONFIG.clientId /\ SFMC_CONFIG.clientSecret /\ SFMC_CONFIG.subdomain

HasDuplicateName(fields) ==
    \E i \in 1..Len(fields), j \in 1..Len(fields) :
        i < j /\ ToLowerCase(fields[i].name) = ToLowerCase(fields[j].name)

HasEmptyPart(fields) ==
    \E i \in 1..Len(fields) : fields[i].name = "" \/ fields[i].value = ""

\* a POST whose body has a non-empty emailName and a fields array
WellFormed(r) ==
    r.method = "POST" /\ r.body.hasBody /\ r.body.emailName # "" /\ r.body.isArray

\* the SaveRequest invariant of the data model
ValidSaveRequest(r) ==
    /\ WellFormed(r)
    /\ Len(r.body.fields) >= 1
    /\ ~HasEmptyPart(r.body.fields)
    /\ ~HasDuplicateName(r.body.fields)

RowColumns == {"email name", "fieldname", "field value", "EntryDate"}
KeyColumns == {"email name", "fieldname"}

\* C1: a getSFMCToken call made while the cache holds a token and the clock
\* is strictly before its expiry returns the cached token, issues no token
\* exchange and leaves the cache as it is.
C1_CachedTokenReturned ==
    [][\A h \in Handlers :
        (/\ pc[h] = "Authenticating"
         /\ pc'[h] # "Authenticating"
         /\ tokenCache.token # 0
         /\ now < tokenCache.expiresAt)
        => (/\ pc'[h] = "BuildingPayload"
            /\ authToken'[h] = tokenCache.token
            /\ exchanges' = exchanges
            /\ issued' = issued
            /\ tokenCache' = tokenCache)]_vars

\* C1 witness: a call holds the cached token without having exchanged.
C1_Witness ==
    \E h \in Handlers :
        /\ pc[h] = "BuildingPayload"
        /\ exchanges[h] = 0
        /\ authToken[h] # 0
        /\ authToken[h] = tokenCache.token
        /\ now < tokenCache.expiresAt

\* C2: a getSFMCToken call made while the cache is empty or the clock is at
\* or after the cached expiry issues exactly one token exchange; when the
\* exchange succeeds the cache holds the token just issued with the expiry
\* computed from its expires_in, and the call returns that token.
C2_RefreshOnMiss ==
    [][\A h \in Handlers :
        /\ (/\ pc[h] = "Authenticating"
            /\ pc'[h] # "Authenticating"
            /\ (tokenCache.token = 0 \/ now >= tokenCache.expiresAt))
           => (/\ pc'[h] = "Exchanging"
               /\ exchanges[h] = 0
               /\ exchanges'[h] = 1)
        /\ (pc[h] = "Exchanging" /\ pc'[h] # "Exchanging")
           => exchanges'[h] = 1
        /\ (pc[h] = "Exchanging" /\ pc'[h] = "BuildingPayload")
           => (/\ response[h].access_token \in 1..issued
               /\ tokenCache'.token = response[h].access_token
               /\ authToken'[h] = response[h].access_token
               /\ tokenCache'.expiresAt =
                     now + ((response[h].expires_in - 60) * 1000))
        /\ exchanges'[h] <= 1]_vars

\* C2 witness: a second token was issued to a call and is the cached one.
C2_Witness ==
    \E h \in Handlers :
        /\ pc[h] = "BuildingPayload"
        /\ exchanges[h] = 1
        /\ issued = 2
        /\ authToken[h] = 2
        /\ tokenCache.token = 2

\* C3: when the token exchange fails (non-2xx status or network failure) the
\* call answers 500 with the auth error, and no step of that call (building
\* the rows, sending the exchange, handling the failure) changes the cache.
C3_FailedExchangeNotCached ==
    [][\A h \in Handlers :
        /\ (pc[h] = "Exchanging" /\ pc'[h] = "Responded")
           => (/\ res'[h].status = 500
               /\ res'[h].success = "false"
               /\ res'[h].error \in {"SFMC Auth failed", "fetch failed"}
               /\ tokenCache' = tokenCache
               /\ issued' = issued
               /\ upserts' = upserts)
        /\ (pc[h] = "idle" /\ pc'[h] = "Authenticating")
           => tokenCache' = tokenCache
        /\ (pc[h] = "Authenticating" /\ pc'[h] = "Exchanging")
           => tokenCache' = tokenCache]_vars

\* C3 witness: an exchange answered 401 on an empty cache; the call failed
\* with the auth error and the cache is still empty.
C3_Witness ==
    \E h \in Handlers :
        /\ pc[h] = "Responded"
        /\ exchanges[h] = 1
        /\ res[h].status = 500
        /\ res[h].error = "SFMC Auth failed"
        /\ res[h].upstream = 401
        /\ tokenCache = [token |-> 0, expiresAt |-> 0]

\* C4: a save request with two field names equal ignoring case is answered
\* 400 and causes no token exchange and no upsert request.
C4_DuplicateRejected ==
    \A h \in Handlers :
        (/\ pc[h] # "idle"
         /\ ConfigComplete
         /\ WellFormed(req[h])
         /\ HasDuplicateName(req[h].body.fields))
        => (/\ (pc[h] = "Responded" => res[h].status = 400)
            /\ exchanges[h] = 0
            /\ upserts[h] = <<>>)

\* C5: a save request whose fields array is empty, or one of whose fields
\* has an empty name or an empty value, is answered 400 and causes no token
\* exchange and no upsert request.
C5_EmptyRejected ==
    \A h \in Handlers :
        (/\ pc[h] # "idle"
         /\ ConfigComplete
         /\ WellFormed(req[h])
         /\ (Len(req[h].body.fields) = 0 \/ HasEmptyPart(req[h].body.fields)))
        => (/\ (pc[h] = "Responded" => res[h].status = 400)
            /\ exchanges[h] = 0
            /\ upserts[h] = <<>>)

\* C6: when client id, client secret or subdomain is missing, every POST is
\* answered with the configuration error, no token exchange and no upsert
\* request is issued, and the cache stays as it was at process start.
C6_MissingConfigFailsFast ==
    ~(SFMC_CONFIG.clientId /\ SFMC_CONFIG.clientSecret /\ SFMC_CONFIG.subdomain)
    => /\ tokenCache = [token |-> 0, expiresAt |-> 0]
       /\ issued = 0
       /\ \A h \in Handlers :
            /\ pc[h] \in {"idle", "Responded"}
            /\ exchanges[h] = 0
            /\ upserts[h] = <<>>
            /\ (pc[h] = "Responded" /\ req[h].method = "POST")
               => (/\ res[h].status = 500
                   /\ res[h].success = "false"
                   /\ res[h].error = "Missing SFMC configuration")

\* C6 witness: only the subdomain is missing and an otherwise valid save
\* request was answered.
C6_Witness ==
    /\ SFMC_CONFIG.clientId /\ SFMC_CONFIG.clientSecret /\ ~SFMC_CONFIG.subdomain
    /\ \E h \in Handlers :
        /\ pc[h] = "Responded"
        /\ ValidSaveRequest(req[h])
        /\ res[h].status = 500

\* C7: for a valid save request with N fields the handler builds N rows, the
\* i-th row carrying the request's emailName and the i-th field's name and
\* value.
C7_OneRowPerField ==
    \A h \in Handlers :
        (pc[h] # "idle" /\ ConfigComplete /\ ValidSaveRequest(req[h]))
        => (/\ Len(dataRows[h]) = Len(req[h].body.fields)
            /\ \A i \in 1..Len(req[h].body.fields) :
                /\ dataRows[h][i]["email name"] = req[h].body.emailName
                /\ dataRows[h][i]["fieldname"] = req[h].body.fields[i].name
                /\ dataRows[h][i]["field value"] = req[h].body.fields[i].value)

\* C7 witness: the rows of a valid two-field request have been built.
C7_Witness ==
    \E h \in Handlers :
        /\ pc[h] = "Authenticating"
        /\ ValidSaveRequest(req[h])
        /\ Len(req[h].body.fields) = 2
        /\ Len(dataRows[h]) = 2

\* C8: all rows built by one save call carry the same EntryDate.
C8_SameTimestamp ==
    \A h \in Handlers :
        \A i \in 1..Len(dataRows[h]), j \in 1..Len(dataRows[h]) :
            dataRows[h][i]["EntryDate"] = dataRows[h][j]["EntryDate"]

\* C9: a successful save of N fields has sent exactly one upsert request, to
\* the rowset endpoint, whose body holds the N rows; no call ever sends more
\* than one upsert request.
C9_OneBulkRequest ==
    \A h \in Handlers :
        /\ Len(upserts[h]) <= 1
        /\ (pc[h] = "Responded" /\ res[h].status = 200 /\ req[h].method = "POST")
           => (/\ Len(upserts[h]) = 1
               /\ upserts[h][1].endpoint = "rowset"
               /\ Len(upserts[h][1].body) = Len(req[h].body.fields)
               /\ \A i \in 1..Len(req[h].body.fields) :
                     upserts[h][1].body[i].values = dataRows[h][i])

\* C9 witness: a save of two fields succeeded.
C9_Witness ==
    \E h \in Handlers :
        /\ pc[h] = "Responded"
        /\ res[h].status = 200
        /\ res[h].success = "true"
        /\ Len(req[h].body.fields) = 2
        /\ Len(upserts[h]) = 1

\* C10: every element of an upsert payload has a keys part with exactly the
\* columns 'email name' and 'fieldname' and a values part with the four
\* columns of the row, and each key equals the same-named value.
C10_KeysMatchValues ==
    \A h \in Handlers :
        \A u \in 1..Len(upserts[h]) :
            \A i \in 1..Len(upserts[h][u].body) :
                LET el == upserts[h][u].body[i] IN
                /\ DOMAIN el = {"keys", "values"}
                /\ DOMAIN el.keys = KeyColumns
                /\ DOMAIN el.values = RowColumns
                /\ \A k \in KeyColumns : el.keys[k] = el.values[k]

\* C10 witness: a payload with two elements has been sent.
C10_Witness ==
    \E h \in Handlers :
        /\ Len(upserts[h]) = 1
        /\ Len(upserts[h][1].body) = 2

\* the key and value columns of a stored row, without its EntryDate
Strip(r) == <<r["email name"], r["fieldname"], r["field value"]>>

\* what the fields of a request leave in the table: for every field name the
\* value of the last field of that name
Expected(r) ==
    { <<r.body.emailName, r.body.fields[i].name, r.body.fields[i].value>> :
        i \in { j \in 1..Len(r.body.fields) :
                  \A k \in (j + 1)..Len(r.body.fields) :
                      r.body.fields[k].name # r.body.fields[j].name } }

\* C11: when the Data Extension applies the rowset of a save whose rows it
\* already holds (the same request was applied before), the table keeps its
\* rows: their number, keys and field values stay, only EntryDate is
\* overwritten; after any applied rowset the table holds the request's rows
\* and no two rows share ('email name', 'fieldname').
C11_UpsertIdempotent ==
    [][\A h \in Handlers :
        (pc[h] = "Submitting" /\ response[h].status = -1 /\ response'[h].ok)
        => (/\ Expected(req[h]) \subseteq { Strip(r) : r \in table' }
            /\ \A r1 \in table', r2 \in table' :
                  (/\ r1["email name"] = r2["email name"]
                   /\ r1["fieldname"] = r2["fieldname"]) => r1 = r2
            /\ (Expected(req[h]) \subseteq { Strip(r) : r \in table })
               => (/\ { Strip(r) : r \in table' } = { Strip(r) : r \in table }
                   /\ Cardinality(table') = Cardinality(table)))]_vars

\* C11 witness: the two-field save was applied twice, at different instants,
\* and the table holds its two rows with the EntryDate of the second.
C11_Witness ==
    /\ Len(applied) = 2
    /\ Len(applied[1]) = 2
    /\ { Strip(applied[1][i].values) : i \in 1..2 }
         = { Strip(applied[2][i].values) : i \in 1..Len(applied[2]) }
    /\ applied[1][1].values["EntryDate"] # applied[2][1].values["EntryDate"]
    /\ table = { applied[2][i].values : i \in 1..2 }

\* C12: the status of a response is 200 exactly when the save succeeded (or
\* the request was OPTIONS), 400 when the body failed validation, 405 when
\* the method is neither POST nor OPTIONS, 500 when configuration, token
\* exchange or upsert failed, and never anything else.
C12_StatusByOutcome ==
    \A h \in Handlers :
        pc[h] = "Responded"
        => (/\ res[h].status \in {200, 400, 405, 500}
            /\ (res[h].status = 405) <=> (req[h].method \notin {"POST", "OPTIONS"})
            /\ (req[h].method = "POST" /\ ConfigComplete
                /\ ~ValidSaveRequest(req[h])) => res[h].status = 400
            /\ (req[h].method = "POST" /\ res[h].status = 200)
               => (ValidSaveRequest(req[h]) /\ response[h].ok)
            /\ (res[h].status = 500)
               => (\/ ~ConfigComplete
                   \/ (exchanges[h] + Len(upserts[h]) > 0 /\ ~response[h].ok)))

\* C13: a successful save answers success true and rowsInserted equal to the
\* number of rows in the upsert request, which is the number of fields of
\* the request.
C13_RowsInsertedCount ==
    \A h \in Handlers :
        (pc[h] = "Responded" /\ req[h].method = "POST" /\ res[h].status = 200)
        => (/\ res[h].success = "true"
            /\ Len(upserts[h]) = 1
            /\ res[h].rowsInserted = Len(upserts[h][1].body)
            /\ res[h].rowsInserted = Len(req[h].body.fields))

\* C13 witness: a two-field save answered rowsInserted 2.
C13_Witness ==
    \E h \in Handlers :
        /\ pc[h] = "Responded"
        /\ res[h].success = "true"
        /\ res[h].rowsInserted = 2
        /\ Len(req[h].body.fields) = 2

\* C14: when the rowset endpoint answers a non-2xx status the save answers
\* 500 with success false and the error carrying that status; it reports
\* neither success nor a count of rows.
C14_UpsertFailureIsTotal ==
    \A h \in Handlers :
        (/\ pc[h] = "Responded"
         /\ Len(upserts[h]) >= 1
         /\ response[h].status > 0
         /\ ~response[h].ok)
        => (/\ res[h].status = 500
            /\ res[h].success = "false"
            /\ res[h].error = "DE Insert failed"
            /\ res[h].upstream = response[h].status
            /\ res[h].rowsInserted = -1)

\* C14 witness: the rowset endpoint answered 400 and the save answered 500.
C14_Witness ==
    \E h \in Handlers :
        /\ pc[h] = "Responded"
        /\ Len(upserts[h]) = 1
        /\ response[h].status = 400
        /\ res[h].status = 500
        /\ res[h].upstream = 400

\* C15: a save whose token exchange failed answers the auth error and sends
\* no upsert request; every upsert request carries the token getSFMCToken
\* returned to that save, a token the authentication endpoint issued.
C15_NoUpsertWithoutToken ==
    \A h \in Handlers :
        /\ \A u \in 1..Len(upserts[h]) :
              /\ upserts[h][u].token = authToken[h]
              /\ upserts[h][u].token \in 1..issued
        /\ pc[h] \in {"idle", "Authenticating", "Exchanging"}
           => upserts[h] = <<>>
        /\ (pc[h] = "Responded" /\ exchanges[h] = 1 /\ ~response[h].ok
            /\ authToken[h] = 0)
           => (/\ upserts[h] = <<>>
               /\ res[h].status = 500
               /\ res[h].success = "false"
               /\ res[h].error \in {"SFMC Auth failed", "fetch failed"}
               /\ res[h].upstream = response[h].status)

\* C15 witness: the exchange fetch was rejected; the save failed without an
\* upsert request.
C15_Witness ==
    \E h \in Handlers :
        /\ pc[h] = "Responded"
        /\ exchanges[h] = 1
        /\ response[h].status = 0
        /\ authToken[h] = 0
        /\ upserts[h] = <<>>
        /\ res[h].error = "fetch failed"

\* C16: one save issues at most one token exchange and at most one upsert
\* request, whatever the platform answers.
C16_NoRetry ==
    \A h \in Handlers :
        /\ exchanges[h] <= 1
        /\ Len(upserts[h]) <= 1
        /\ pc[h] = "Exchanging" => (exchanges[h] = 1 /\ upserts[h] = <<>>)
        /\ pc[h] = "Submitting" => Len(upserts[h]) = 1

\* C16 witness: a save exchanged once, upserted once, was refused by the
\* rowset endpoint and answered without a second attempt.
C16_Witness ==
    \E h \in Handlers :
        /\ pc[h] = "Responded"
        /\ exchanges[h] = 1
        /\ Len(upserts[h]) = 1
        /\ ~response[h].ok
        /\ res[h].status = 500

\* C17: under any interleaving of invocations the cache changes only by
\* the invocation that completes an exchange writing the whole pair taken
\* from its own response: the token of that response and the expiry computed
\* from that response's expires_in; the pair of the last completed exchange
\* replaces the earlier one entirely.
C17_CacheNeverTorn ==
    [][\/ tokenCache' = tokenCache
       \/ \E h \in Handlers :
             /\ pc[h] = "Exchanging"
             /\ pc'[h] = "BuildingPayload"
             /\ response[h].ok
             /\ authToken'[h] = response[h].access_token
             /\ tokenCache' =
                  [token |-> response[h].access_token,
                   expiresAt |-> now + ((response[h].expires_in - 60) * 1000)]
      ]_vars

\* C17 witness: two overlapping exchanges completed and the cache holds the
\* token issued first, written last.
C17_Witness ==
    \E h \in Handlers, g \in Handlers :
        /\ exchanges[h] = 1 /\ exchanges[g] = 1
        /\ authToken[h] # 0 /\ authToken[g] # 0
        /\ authToken[h] < authToken[g]
        /\ tokenCache.token = authToken[h]

\* C18: an invocation's next step never waits for another invocation, each
\* invocation that misses the cache has its own exchange in flight, and the
\* outcome of a save is decided by the answers to its own requests.
C18_InvocationsIndependent ==
    \A h \in Handlers :
        /\ pc[h] = "Authenticating"
           => ENABLED (GetTokenCached(h) \/ GetTokenRequest(h))
        /\ pc[h] = "BuildingPayload" => ENABLED InsertRequest(h)
        /\ (pc[h] = "Exchanging" /\ response[h].status # -1)
           => ENABLED (ExchangeOk(h) \/ ExchangeFail(h))
        /\ (pc[h] = "Submitting" /\ response[h].status # -1)
           => ENABLED (InsertOk(h) \/ InsertFail(h))
        /\ pc[h] = "Exchanging" => exchanges[h] = 1
        /\ (pc[h] = "Responded" /\ exchanges[h] + Len(upserts[h]) > 0)
           => ((res[h].status = 200) <=> response[h].ok)

\* C18 witness: a save exchanged and succeeded while the exchange of another
\* save, which had missed the cache before, is still pending.
C18_Witness ==
    \E h \in Handlers, g \in Handlers :
        /\ pc[h] = "Exchanging"
        /\ response[h].status = -1
        /\ pc[g] = "Responded"
        /\ res[g].status = 200
        /\ exchanges[g] = 1
        /\ tokenCache.token = authToken[g]
        /\ now < tokenCache.expiresAt

\* C19 (as claimed): whenever getSFMCToken returns the cached token, the
\* clock is more than the 60 s safety margin before the token's real expiry
\* at the platform, issue time plus expires_in.
C19_MarginBeforeRealExpiry ==
    [][\A h \in Handlers :
        (pc[h] = "Authenticating" /\ pc'[h] = "BuildingPayload")
        => LET tok == authToken'[h] IN
           now + (60 * 1000)
             < tokenLog[tok].issuedAt + (tokenLog[tok].expires_in * 1000)]_vars

\* C19 (amended): whenever getSFMCToken returns the cached token, the clock
\* is more than (60 s minus the time the exchange response took from issue
\* to the cache write) before the token's real expiry at the platform.
C19_MarginLessLatency ==
    [][\A h \in Handlers :
        (pc[h] = "Authenticating" /\ pc'[h] = "BuildingPayload")
        => LET tok == authToken'[h] IN
           now + (60 * 1000) - (cachedAt - tokenLog[tok].issuedAt)
             < tokenLog[tok].issuedAt + (tokenLog[tok].expires_in * 1000)]_vars

\* C19 witness: a cached token whose response took time to arrive was served
\* within the last 60 s of its real validity.
C19_Witness ==
    \E h \in Handlers :
        /\ pc[h] = "BuildingPayload"
        /\ exchanges[h] = 0
        /\ authToken[h] # 0
        /\ authToken[h] = tokenCache.token
        /\ cachedAt > tokenLog[authToken[h]].issuedAt
        /\ now + (60 * 1000) >= tokenLog[authToken[h]].issuedAt
                                  + (tokenLog[authToken[h]].expires_in * 1000)

\* C20: every save that has started is answered, also when the platform
\* never answers a request.
C20_SaveTerminates ==
    \A h \in Handlers :
        (pc[h] \in {"Authenticating", "Exchanging", "BuildingPayload", "Submitting"})
            ~> (pc[h] = "Responded")

\* C21: an OPTIONS request is answered at once with status 200 and the three
\* cross-origin headers, whatever the configuration and the cache hold, and
\* no step taken while it is the current request sends an exchange or an
\* upsert, has a token issued or changes the cache.
C21_PreflightHasNoEffect ==
    [][\A h \in Handlers :
        req'[h].method = "OPTIONS"
        => /\ pc'[h] = "Responded"
           /\ res'[h].status = 200
           /\ res'[h].headers =
                { <<"Access-Control-Allow-Origin", "*">>,
                  <<"Access-Control-Allow-Methods", "POST, OPTIONS">>,
                  <<"Access-Control-Allow-Headers", "Content-Type">> }
           /\ exchanges'[h] = 0
           /\ upserts'[h] = <<>>
           /\ issued' = issued
           /\ tokenCache' = tokenCache]_vars

\* C21 witness: an OPTIONS request was answered while the cache held a token
\* that was still valid.
C21_Witness ==
    \E h \in Handlers :
        /\ req[h].method = "OPTIONS"
        /\ pc[h] = "Responded"
        /\ tokenCache.token # 0
        /\ now < tokenCache.expiresAt

\* C24: a successful exchange stores the expiry now + (expires_in - 60) * 1000;
\* for expires_in of 60 or less that expiry is not after the time of the
\* write, and a token is returned from the cache only when its stored expiry
\* is after the time it was written, that is when its expires_in exceeded 60.
C24_ShortLivedTokenNeverServed ==
    [][\A h \in Handlers :
        /\ (pc[h] = "Exchanging" /\ pc'[h] = "BuildingPayload")
           => /\ tokenCache'.expiresAt
                   = now + ((response[h].expires_in - 60) * 1000)
              /\ response[h].expires_in <= 60 => tokenCache'.expiresAt <= now
        /\ (pc[h] = "Authenticating" /\ pc'[h] = "BuildingPayload")
           => tokenCache.expiresAt > cachedAt]_vars

\* C24 witness: the cache holds a token stored with an expiry not after its
\* write, and the next call is exchanging credentials again.
C24_Witness ==
    \E h \in Handlers :
        /\ tokenCache.token # 0
        /\ tokenCache.expiresAt <= cachedAt
        /\ pc[h] = "Exchanging"
        /\ exchanges[h] = 1

\* C25: every request taken up is answered (and its phases are gone through
\* in order, with one response).
C25_OneResponsePerRequest ==
    \A h \in Handlers : (req[h] # NoRequest) ~> (res[h] # NoResponse)

\* C26: the cache is empty at process start; it changes only in the step
\* that completes a successful exchange; a cache that holds a token never
\* becomes empty; no step that sends a response (validation, configuration,
\* exchange or upsert failure, OPTIONS, wrong method, success) changes it.
C26_CacheLifecycle ==
    /\ tokenCache = [token |-> 0, expiresAt |-> 0]
    /\ [][/\ tokenCache' # tokenCache
             => \E h \in Handlers : /\ pc[h] = "Exchanging"
                                    /\ response[h].ok
                                    /\ pc'[h] = "BuildingPayload"
                                    /\ tokenCache'.token # 0
          /\ tokenCache.token # 0 => tokenCache'.token # 0
          /\ \A h \in Handlers :
                (pc[h] # "Responded" /\ pc'[h] = "Responded")
                => tokenCache' = tokenCache]_vars

\* C26 witness: an upsert failed and was answered 500 while the cache held
\* the token it was sent with.
C26_Witness ==
    \E h \in Handlers :
        /\ pc[h] = "Responded"
        /\ res[h].error = "DE Insert failed"
        /\ tokenCache.token # 0
        /\ tokenCache.token = authToken[h]

\* C22: once the widget has started, the number of field rows is between
\* MIN_FIELDS and MAX_FIELDS, whatever rows were added, removed or loaded.
C22_FieldCountWithinLimits ==
    variant # "none" => /\ Len(fieldRows) >= 1
                        /\ Len(fieldRows) <= 20

\* the SaveRequest invariant on a body as sent
ValidAsSent(data) ==
    /\ data.emailName # <<>>
    /\ \A i \in 1..Len(data.fields) :
          data.fields[i].name # <<>> /\ data.fields[i].value # <<>>
    /\ \A i \in 1..Len(data.fields), j \in 1..Len(data.fields) :
          i < j => LowerCase(data.fields[i].name) # LowerCase(data.fields[j].name)

\* C23: every request the widget has sent satisfies the SaveRequest
\* invariant on the names and values as sent.
C23_SentRequestsValid ==
    \A i \in 1..Len(saves) : saves[i].sent => ValidAsSent(saves[i].data)

\* C27: a start that finds saved data with at least one field leaves the
\* form with exactly the saved fields as its rows (backend variant: init;
\* Postmonger variant: onInitActivity).
C27_SavedFieldsReplaceDefaults ==
    [][/\ (variant = "none" /\ variant' = "backend"
             /\ localStorage.present /\ Len(localStorage.fields) >= 1)
          => fieldRows' = localStorage.fields
       /\ (variant = "postmonger" /\ "initActivity" \in hostEvents
             /\ "initActivity" \notin hostEvents'
             /\ activity.present /\ Len(activity.fields) >= 1)
          => fieldRows' = activity.fields]_vars

\* C28: the save button is disabled exactly while a save is in flight, at
\* most one save is in flight, and the step that ends a save, whatever its
\* outcome, leaves the button enabled.
C28_ButtonDisabledWhileSaving ==
    /\ Len(saves) <= 1
    /\ btnSaveDisabled <=> (Len(saves) = 1)

\* C28 witness: a save that the backend rejected is about to end; the button
\* is disabled.
C28_Witness ==
    /\ Len(saves) = 1
    /\ saves[1].sent
    /\ saves[1].result = "rejected"
    /\ btnSaveDisabled

\* C29: localStorage and the payload kept by the host change only in the
\* step that ends a save reported successful, which writes that save's data
\* to the store of the variant; the payload object changes only to what the
\* host keeps; the step that ends any other save changes none of them.
C29_PersistOnlyAfterSuccess ==
    [][/\ (localStorage' # localStorage \/ activity' # activity)
          => \E i \in 1..Len(saves) :
                /\ saves[i].result = "success"
                /\ Len(saves') = Len(saves) - 1
                /\ LET written == [present |-> TRUE,
                                   emailName |-> saves[i].data.emailName,
                                   hasFields |-> TRUE,
                                   fields |-> saves[i].data.fields]
                   IN  IF variant = "backend"
                       THEN localStorage' = written /\ activity' = activity
                       ELSE activity' = written /\ localStorage' = localStorage
       /\ payload' # payload => payload' = activity'
       /\ (Len(saves') < Len(saves)
             /\ \A i \in 1..Len(saves) : saves[i].result # "success")
          => /\ localStorage' = localStorage
             /\ activity' = activity
             /\ payload' = payload]_vars

\* C29 witness: a store holds a form state that no earlier session left,
\* and the success message is shown.
C29_Witness ==
    /\ messageArea = "success"
    /\ \/ localStorage.present /\ localStorage \notin SavedItems
       \/ activity.present /\ activity \notin SavedItems

====
